---- MODULE Spec2Model ----
(***************************************************************************)
(* Model of src/src/modules/client.ts: the Client class with its response  *)
(* store (keyed by the hash of the serialized request body), its           *)
(* subscription map, executeQuery and executeMutation.                     *)
(*                                                                         *)
(* The transport (fetch + res.json()) is an external collaborator: an      *)
(* issued exchange later completes with a parsed JSON response or fails    *)
(* with an error.  Subscriber callbacks are external code as well: each    *)
(* time one is invoked it returns normally, calls client.unsubscribe(id),  *)
(* or throws.                                                              *)
(***************************************************************************)
EXTENDS Integers, Sequences, FiniteSets, TLC

(***************************************************************************)
(* Bounds of the model.                                                    *)
(***************************************************************************)
MaxCalls == 2
MaxSubs == 2

(***************************************************************************)
(* JSON values.  Every value is a record of the same shape:                *)
(*   t    : "scalar", "obj" or "arr"                                       *)
(*   v    : the text of a scalar                                           *)
(*   kind : the __typename of an object ("" when it has none)              *)
(*   kids : the values of the other fields / the elements of an array      *)
(***************************************************************************)
Scalar(v) == [t |-> "scalar", v |-> v, kind |-> "", kids |-> <<>>]
Obj(kind, kids) == [t |-> "obj", v |-> "", kind |-> kind, kids |-> kids]
Arr(items) == [t |-> "arr", v |-> "", kind |-> "", kids |-> items]

Undefined == Scalar("undefined")
DNull == Scalar("null")
DEmpty == Obj("", <<>>)
DUser ==
  Obj("", << Obj("User", << Scalar("Ann"),
                            Arr(<< Obj("Todo", <<>>), Obj("Todo", <<>>) >>) >>) >>)

\* The values a response may carry in its data field.
DataValues == {DNull, DEmpty, DUser}

\* A parsed JSON response: {} has no data field, {data: d} has one.
Responses ==
  {[hasData |-> FALSE, data |-> Undefined]}
    \cup {[hasData |-> TRUE, data |-> d] : d \in DataValues}

\* response.data: reading an absent property yields undefined.
DataOf(response) == IF response.hasData THEN response.data ELSE Undefined

\* JavaScript ToBoolean, as applied by `if (response.data)` and
\* `this.store[hash] && ...`: objects and arrays are truthy, the scalars
\* undefined, null, false, 0 and "" are falsy.
FalsyScalars == {"undefined", "null", "false", "0", ""}
\* Faulty variants of the test: everything passes; an empty object fails.
TruthyAlways(val) == TRUE
TruthyNonEmpty(val) == val.t # "scalar" /\ val.kids # <<>>

Truthy(val) == ~(val.t = "scalar" /\ val.v \in FalsyScalars)

\* Errors a call may reject with.
NoError == ""
NoDataError == "No data"
CallbackError == "callback threw"
TransportErrors == {"TypeError: Failed to fetch"}

(***************************************************************************)
(* gankTypeNamesFromResponse: the distinct __typename labels found         *)
(* anywhere in a value (depth-first over arrays and objects).              *)
(***************************************************************************)
RECURSIVE gankTypeNamesFromResponse(_)
RECURSIVE TypeNamesOfSeq(_)
TypeNamesOfSeq(vals) ==
  IF vals = <<>> THEN {}
  ELSE gankTypeNamesFromResponse(Head(vals)) \cup TypeNamesOfSeq(Tail(vals))

gankTypeNamesFromResponse(val) ==
  CASE val.t = "arr" -> TypeNamesOfSeq(val.kids)
    [] val.t = "obj" ->
         (IF val.kind # "" THEN {val.kind} ELSE {}) \cup TypeNamesOfSeq(val.kids)
    [] OTHER -> {}

(***************************************************************************)
(* Requests.  `variables` is a JavaScript object: a list of key/value      *)
(* pairs in insertion order, with distinct keys.                           *)
(***************************************************************************)
VarsAB == << <<"a", "1">>, <<"b", "2">> >>
VarsBA == << <<"b", "2">>, <<"a", "1">> >>
Requests ==
  { [query |-> "{ user { name } }", variables |-> VarsAB],
    [query |-> "{ user { name } }", variables |-> VarsBA] }

\* The mutation objects passed to executeMutation; the body is the same as
\* that of a query.
Mutations == { [query |-> "{ user { name } }", variables |-> VarsAB] }

\* Structural equality of two requests: the same query and the same set of
\* variable key/value pairs.
PairsOf(variables) == {variables[i] : i \in 1..Len(variables)}
StructurallyEqual(r1, r2) ==
  /\ r1.query = r2.query
  /\ PairsOf(r1.variables) = PairsOf(r2.variables)

\* JSON.stringify of an object: its own properties in insertion order.
RECURSIVE StringifyPairs(_)
StringifyPairs(pairs) ==
  IF pairs = <<>> THEN <<>>
  ELSE << "\"", pairs[1][1], "\":", "\"", pairs[1][2], "\"" >>
         \o (IF Len(pairs) > 1 THEN <<",">> ELSE <<>>)
         \o StringifyPairs(Tail(pairs))

\* JSON.stringify({ query, variables }): the body as a sequence of pieces of
\* text, in the order they appear in the string.
Stringify(req) ==
  << "{", "\"query\":", "\"", req.query, "\"", ",", "\"variables\":", "{" >>
    \o StringifyPairs(req.variables)
    \o << "}", "}" >>

(***************************************************************************)
(* hashString: a deterministic digest of the body.                         *)
(***************************************************************************)
Alphabet ==
  << "{", "}", "\"", ",", ":", "\"query\":", "\"variables\":", "\":",
     "{ user { name } }", "a", "b", "1", "2" >>
CharCode(piece) == CHOOSE i \in 1..Len(Alphabet) : Alphabet[i] = piece
HashMod == 65536
RECURSIVE HashFrom(_, _)
HashFrom(h, str) ==
  IF str = <<>> THEN h
  ELSE HashFrom((h * 33 + CharCode(Head(str))) % HashMod, Tail(str))
hashString(str) == HashFrom(5381, str)

(***************************************************************************)
(* State of one Client.                                                    *)
(*   store         : this.store, hash -> cached response data              *)
(*   subscriptions : this.subscriptions, the ids that have a callback, in  *)
(*                   insertion order (the order for..in enumerates them)   *)
(*   nextId        : number of ids handed out by uuid.v4() so far          *)
(*   calls         : the promises returned by executeQuery and             *)
(*                   executeMutation, in the order of the calls            *)
(*   broadcast     : the callback invocations made in the last step: the   *)
(*                   call whose handler ran updateSubscribers and what     *)
(*                   the loop delivered (call 0 when the step ran none)    *)
(*   url           : this.url                                              *)
(*   fetchOptions  : this.fetchOptions, an object or a function; for a     *)
(*                   function, value is what it returns when called now    *)
(*   construction  : what new Client(opts) did: not evaluated yet,         *)
(*                   returned the instance, or the message of the Error    *)
(*                   it threw                                              *)
(* Around the Client:                                                      *)
(*   peer          : the fields of a second Client instance of the same    *)
(*                   process, and its promises                             *)
(*   registered    : for each call of calls, the ids that had a callback   *)
(*                   when the call was made (kept by the scenario that     *)
(*                   observes the broadcasts of mutations)                 *)
(***************************************************************************)
VARIABLES store, subscriptions, nextId, calls, broadcast,
          url, fetchOptions, construction, peer, registered

vars == <<store, subscriptions, nextId, calls, broadcast,
          url, fetchOptions, construction, peer, registered>>

\* What the methods of a Client leave alone: its configuration and the
\* other instance.
frame == <<url, fetchOptions, construction, peer>>

\* What a subscribed callback may do when it is invoked.
Callbacks ==
  {[kind |-> "return", target |-> 0], [kind |-> "throw", target |-> 0]}
    \cup {[kind |-> "unsubscribe", target |-> i] : i \in 1..MaxSubs}

NoResponse == [hasData |-> FALSE, data |-> Undefined]
NoBroadcast == [call |-> 0, delivered |-> <<>>]

(***************************************************************************)
(* Configuration: new Client(opts) and the options handed to fetch.        *)
(***************************************************************************)
\* Objects that a caller supplies as fetchOptions, as maps from key to value.
EmptyObject == [k \in {} |-> ""]
WithCredentials == [credentials |-> "include"]
AuthorizationA == [headers |-> [Authorization |-> "Bearer A"]]
AuthorizationB == [headers |-> [Authorization |-> "Bearer B"]]
OptionObjects == {EmptyObject, WithCredentials, AuthorizationA, AuthorizationB}

\* this.fetchOptions: an object, or a function that returns one.
StaticOptions(object) == [tag |-> "object", value |-> object]
ProviderOptions(object) == [tag |-> "function", value |-> object]

DefaultUrl == "https://api.test/graphql"

\* The arguments of new Client(opts): no argument, or an options object with
\* or without url (the url possibly empty) and with or without fetchOptions.
NoOpts ==
  [given |-> FALSE, hasUrl |-> FALSE, url |-> "",
   hasFetchOptions |-> FALSE, fetchOptions |-> StaticOptions(EmptyObject)]

ClientOptions ==
  {NoOpts}
    \cup {[given |-> TRUE, hasUrl |-> FALSE, url |-> "",
           hasFetchOptions |-> FALSE, fetchOptions |-> StaticOptions(EmptyObject)]}
    \cup {[given |-> TRUE, hasUrl |-> TRUE, url |-> u,
           hasFetchOptions |-> FALSE, fetchOptions |-> StaticOptions(EmptyObject)] :
            u \in {"", DefaultUrl}}
    \cup {[given |-> TRUE, hasUrl |-> TRUE, url |-> DefaultUrl,
           hasFetchOptions |-> TRUE, fetchOptions |-> f] :
            f \in {StaticOptions(WithCredentials), StaticOptions(AuthorizationA),
                   ProviderOptions(AuthorizationA)}}

NotConstructed == "not constructed"
Constructed == "constructed"
ConfigurationErrors ==
  {"Please provide configuration object", "Please provide a URL for your GraphQL API"}

\* The fields of the instance called name right after
\* new Client({ url: DefaultUrl }).
FreshClient(name) ==
  [name |-> name, url |-> DefaultUrl, fetchOptions |-> StaticOptions(EmptyObject),
   construction |-> Constructed, store |-> << >>, subscriptions |-> << >>,
   calls |-> << >>]

\* Faulty variant of the constructor: the url is not required.
constructorLenient(opts) ==
  /\ construction = NotConstructed
  /\ IF ~opts.given
     THEN /\ construction' = "Please provide configuration object"
          /\ UNCHANGED <<url, fetchOptions, store, subscriptions>>
     ELSE /\ construction' = Constructed
          /\ url' = opts.url
          /\ fetchOptions' =
               IF opts.hasFetchOptions THEN opts.fetchOptions
               ELSE StaticOptions(EmptyObject)
          /\ store' = << >>
          /\ subscriptions' = << >>
  /\ broadcast' = NoBroadcast
  /\ UNCHANGED <<nextId, calls, peer, registered>>

\* new Client(opts).
constructor(opts) ==
  /\ construction = NotConstructed
  /\ IF ~opts.given
     THEN /\ construction' = "Please provide configuration object"
          /\ UNCHANGED <<url, fetchOptions, store, subscriptions>>
     ELSE IF ~opts.hasUrl \/ opts.url = ""
     THEN /\ construction' = "Please provide a URL for your GraphQL API"
          /\ UNCHANGED <<url, fetchOptions, store, subscriptions>>
     ELSE /\ construction' = Constructed
          /\ url' = opts.url
          /\ fetchOptions' =
               IF opts.hasFetchOptions THEN opts.fetchOptions
               ELSE StaticOptions(EmptyObject)
          /\ store' = << >>
          /\ subscriptions' = << >>
  /\ broadcast' = NoBroadcast
  /\ UNCHANGED <<nextId, calls, peer, registered>>

\* Two instances made by new Client({ url: DefaultUrl }): this one and peer.
Init ==
  /\ store = << >>
  /\ subscriptions = << >>
  /\ nextId = 0
  /\ calls = << >>
  /\ broadcast = NoBroadcast
  /\ url = DefaultUrl
  /\ fetchOptions = StaticOptions(EmptyObject)
  /\ construction = Constructed
  /\ peer = FreshClient("second")
  /\ registered = << >>

\* this.store[hash]: undefined when the store has no such key.
Lookup(st, hash) == IF hash \in DOMAIN st THEN st[hash] ELSE Undefined

Ids(subs) == {subs[i] : i \in 1..Len(subs)}

\* Faulty variant of delete: it also drops the entries inserted after id.
DeleteKeyAndLater(subs, id) == SelectSeq(subs, LAMBDA k : k < id)

\* delete obj[id]: removes the entry if present, keeps the order of the rest.
DeleteKey(subs, id) == SelectSeq(subs, LAMBDA k : k # id)

\* One invocation this.subscriptions[sub](typenames, changes), and what the
\* callback did in it.
Invocation(id, typenames, changes, cb) ==
  [id |-> id, typenames |-> typenames, changes |-> changes, did |-> cb]

(***************************************************************************)
(* updateSubscribers(typenames, changes): for..in over this.subscriptions. *)
(* The keys are visited in insertion order; a key deleted before it is     *)
(* reached is not visited.  A callback that throws ends the loop.          *)
(* Result: the possible runs of the loop, one for each choice of what the  *)
(* invoked callbacks do.  A run is the subscription map afterwards, the    *)
(* invocations made, and whether an exception left the loop.               *)
(***************************************************************************)
\* The loop body for callback id doing cb: the run so far after it.
Invoke(id, cb, subs, typenames, changes, delivered) ==
  [subs |-> IF cb.kind = "unsubscribe" THEN DeleteKey(subs, cb.target) ELSE subs,
   delivered |-> Append(delivered, Invocation(id, typenames, changes, cb)),
   threw |-> cb.kind = "throw"]

\* Faulty variant of the loop: it returns after the first callback.
ForInFirstOnly(keys, subs, typenames, changes, delivered) ==
  IF keys = <<>> THEN {[subs |-> subs, delivered |-> delivered, threw |-> FALSE]}
  ELSE {Invoke(Head(keys), cb, subs, typenames, changes, delivered) : cb \in Callbacks}

\* Faulty variant of the loop: it iterates over a copy of the keys without
\* testing that the key is still there, and calling the missing callback
\* throws.
RECURSIVE ForInStaleKeys(_, _, _, _, _)
ForInStaleKeys(keys, subs, typenames, changes, delivered) ==
  IF keys = <<>> THEN {[subs |-> subs, delivered |-> delivered, threw |-> FALSE]}
  ELSE IF Head(keys) \notin Ids(subs)
  THEN {[subs |-> subs, delivered |-> delivered, threw |-> TRUE]}
  ELSE UNION {LET run == Invoke(Head(keys), cb, subs, typenames, changes, delivered)
              IN IF run.threw THEN {run}
                 ELSE ForInStaleKeys(Tail(keys), run.subs, typenames, changes,
                                     run.delivered) :
                cb \in Callbacks}

RECURSIVE ForIn(_, _, _, _, _)
ForIn(keys, subs, typenames, changes, delivered) ==
  IF keys = <<>> THEN {[subs |-> subs, delivered |-> delivered, threw |-> FALSE]}
  ELSE IF Head(keys) \notin Ids(subs)
  THEN ForIn(Tail(keys), subs, typenames, changes, delivered)
  ELSE UNION {LET run == Invoke(Head(keys), cb, subs, typenames, changes, delivered)
              IN IF run.threw THEN {run}
                 ELSE ForIn(Tail(keys), run.subs, typenames, changes, run.delivered) :
                cb \in Callbacks}

updateSubscribers(subs, typenames, changes) ==
  ForIn(subs, subs, typenames, changes, <<>>)

\* subscribe(callback): a fresh id, the callback stored under it.
subscribe ==
  /\ construction = Constructed
  /\ nextId < MaxSubs
  /\ nextId' = nextId + 1
  /\ subscriptions' = Append(subscriptions, nextId + 1)
  /\ broadcast' = NoBroadcast
  /\ UNCHANGED <<store, calls, frame, registered>>

\* unsubscribe(id): delete this.subscriptions[id], for any id.
unsubscribe(id) ==
  /\ construction = Constructed
  /\ subscriptions' = DeleteKey(subscriptions, id)
  /\ broadcast' = NoBroadcast
  /\ UNCHANGED <<store, nextId, calls, frame, registered>>

(***************************************************************************)
(* executeQuery / executeMutation                                          *)
(***************************************************************************)
\* The promise of a call, before anything happened to it.
\*   hash       : the cache key, the hash of the serialized request
\*   fetches    : number of network exchanges the call has issued
\*   transport  : "none", "pending", "response" or "error"
\*   response   : the parsed response the exchange completed with
\*   thrown     : the error the exchange failed with
\*   status     : "pending", "resolved" or "rejected"
\*   data, typeNames : what the promise resolved with
\*   error      : what the promise rejected with
\*   provided   : number of times the call invoked this.fetchOptions()
\*   options    : the local fetchOptions of the call
\*   sentTo, init : the two arguments of its fetch
NewCall(kind, req, skipCache) ==
  [kind |-> kind, req |-> req,
   hash |-> hashString(Stringify(req)), skipCache |-> skipCache,
   fetches |-> 0, transport |-> "none", response |-> NoResponse,
   thrown |-> NoError, status |-> "pending", data |-> Undefined,
   typeNames |-> {}, error |-> NoError,
   provided |-> 0, options |-> EmptyObject, sentTo |-> "", init |-> EmptyObject]

\* Faulty variants of the cache test: the skipCache flag inverted, and the
\* skipCache flag ignored.
CacheHitInverted(st, hash, skipCache) ==
  /\ Truthy(Lookup(st, hash))
  /\ skipCache

CacheHitIgnoringSkip(st, hash, skipCache) == Truthy(Lookup(st, hash))

\* `this.store[hash] && !skipCache`
CacheHit(st, hash, skipCache) ==
  /\ Truthy(Lookup(st, hash))
  /\ ~skipCache

\* Faulty variant of the write: an existing entry is kept.
PutIfAbsent(st, hash, data) ==
  [h \in DOMAIN st \cup {hash} |-> IF h \in DOMAIN st THEN st[h] ELSE data]

\* Faulty variants of the store write: every entry gets the data, and the
\* store is replaced by the one entry.
PutEverywhere(st, hash, data) == [h \in DOMAIN st \cup {hash} |-> data]

PutOnly(st, hash, data) == [h \in {hash} |-> data]

\* this.store[hash] = data
Put(st, hash, data) ==
  [h \in DOMAIN st \cup {hash} |-> IF h = hash THEN data ELSE st[h]]

\* { ...a, ...b }: the keys of both, the value of b where both have the key.
Spread(a, b) ==
  [k \in DOMAIN a \cup DOMAIN b |-> IF k \in DOMAIN b THEN b[k] ELSE a[k]]

\* { body, headers: { 'Content-Type': 'application/json' }, method: 'POST' }
RequestInit(req) ==
  [body |-> Stringify(req),
   headers |-> ("Content-Type" :> "application/json"),
   method |-> "POST"]

\* The exchanges of calls issued so far.
Fetched(cs) == {i \in 1..Len(cs) : cs[i].fetches > 0}

\* Faulty variant of fetch: the options of the first exchange are kept and
\* used for the later ones.
FetchReusingOptions(call) ==
  LET earlier == Fetched(calls)
      options == IF earlier = {} THEN fetchOptions.value
                 ELSE calls[CHOOSE i \in earlier : \A j \in earlier : i <= j].options
  IN [call EXCEPT !.fetches = @ + 1,
                  !.transport = "pending",
                  !.provided = IF fetchOptions.tag = "function" /\ earlier = {}
                               THEN 1 ELSE 0,
                  !.options = options,
                  !.sentTo = url,
                  !.init = Spread(RequestInit(call.req), options)]

\* const fetchOptions = typeof this.fetchOptions === 'function'
\*   ? this.fetchOptions() : this.fetchOptions;
\* fetch(this.url, { body, headers, method, ...fetchOptions }): one network
\* exchange issued.
Fetch(call) ==
  LET options == fetchOptions.value
  IN [call EXCEPT !.fetches = @ + 1,
                  !.transport = "pending",
                  !.provided = IF fetchOptions.tag = "function" THEN 1 ELSE 0,
                  !.options = options,
                  !.sentTo = url,
                  !.init = Spread(RequestInit(call.req), options)]

\* The synchronous part of executeQuery: serve from the store, or fetch.
executeQuery(req, skipCache) ==
  /\ construction = Constructed
  /\ Len(calls) < MaxCalls
  /\ LET call == NewCall("query", req, skipCache)
     IN IF CacheHit(store, call.hash, skipCache)
        THEN calls' = Append(calls,
               [call EXCEPT !.status = "resolved",
                            !.data = Lookup(store, call.hash),
                            !.typeNames =
                               gankTypeNamesFromResponse(Lookup(store, call.hash))])
        ELSE calls' = Append(calls, Fetch(call))
  /\ broadcast' = NoBroadcast
  /\ UNCHANGED <<store, subscriptions, nextId, frame, registered>>

\* .then(response => ...) of executeQuery.
QueryThen(c, response) ==
  /\ c \in 1..Len(calls)
  /\ calls[c].kind = "query"
  /\ calls[c].transport = "pending"
  /\ IF Truthy(DataOf(response))
     THEN /\ store' = Put(store, calls[c].hash, DataOf(response))
          /\ calls' = [calls EXCEPT ![c].transport = "response",
                                    ![c].response = response,
                                    ![c].status = "resolved",
                                    ![c].data = DataOf(response),
                                    ![c].typeNames =
                                       gankTypeNamesFromResponse(DataOf(response))]
     ELSE /\ store' = store
          /\ calls' = [calls EXCEPT ![c].transport = "response",
                                    ![c].response = response,
                                    ![c].status = "rejected",
                                    ![c].error = NoDataError]
  /\ broadcast' = NoBroadcast
  /\ UNCHANGED <<subscriptions, nextId, frame, registered>>

\* Faulty variant of the catch handler: the error is replaced.
QueryCatchWrapped(c, e) ==
  /\ c \in 1..Len(calls)
  /\ calls[c].kind = "query"
  /\ calls[c].transport = "pending"
  /\ calls' = [calls EXCEPT ![c].transport = "error",
                            ![c].thrown = e,
                            ![c].status = "rejected",
                            ![c].error = NoDataError]
  /\ broadcast' = NoBroadcast
  /\ UNCHANGED <<store, subscriptions, nextId, frame, registered>>

\* Faulty variant of the catch handler: the error is swallowed and the
\* promise is left pending.
QueryCatchSwallowed(c, e) ==
  /\ c \in 1..Len(calls)
  /\ calls[c].kind = "query"
  /\ calls[c].transport = "pending"
  /\ calls' = [calls EXCEPT ![c].transport = "error", ![c].thrown = e]
  /\ broadcast' = NoBroadcast
  /\ UNCHANGED <<store, subscriptions, nextId, frame, registered>>

\* .catch(e => reject(e)) of executeQuery, on a failure of the exchange.
QueryCatch(c, e) ==
  /\ c \in 1..Len(calls)
  /\ calls[c].kind = "query"
  /\ calls[c].transport = "pending"
  /\ calls' = [calls EXCEPT ![c].transport = "error",
                            ![c].thrown = e,
                            ![c].status = "rejected",
                            ![c].error = e]
  /\ broadcast' = NoBroadcast
  /\ UNCHANGED <<store, subscriptions, nextId, frame, registered>>

\* Faulty variant of executeMutation: it consults the store like a query.
executeMutationCached(req) ==
  /\ construction = Constructed
  /\ Len(calls) < MaxCalls
  /\ LET call == NewCall("mutation", req, FALSE)
     IN IF CacheHit(store, call.hash, FALSE)
        THEN calls' = Append(calls,
               [call EXCEPT !.status = "resolved", !.data = Lookup(store, call.hash)])
        ELSE calls' = Append(calls, Fetch(call))
  /\ broadcast' = NoBroadcast
  /\ UNCHANGED <<store, subscriptions, nextId, frame, registered>>

\* The synchronous part of executeMutation: always fetch.
postMutation(req) ==
  /\ construction = Constructed
  /\ Len(calls) < MaxCalls
  /\ calls' = Append(calls, Fetch(NewCall("mutation", req, FALSE)))
  /\ broadcast' = NoBroadcast
  /\ UNCHANGED <<store, subscriptions, nextId, frame>>

executeMutation(req) == postMutation(req) /\ UNCHANGED registered

\* executeMutation, with a note of the callbacks registered at the call.
executeMutationObserved(req) ==
  /\ postMutation(req)
  /\ registered' = Append(registered, Ids(subscriptions))

\* Faulty variant of the handler: it broadcasts to the callbacks that were
\* registered when the mutation was called.
MutationThenToCallers(c, response) ==
  /\ c \in 1..Len(calls)
  /\ calls[c].kind = "mutation"
  /\ calls[c].transport = "pending"
  /\ IF Truthy(DataOf(response))
     THEN \E run \in ForIn(SelectSeq(subscriptions, LAMBDA k : k \in registered[c]),
                           subscriptions,
                           gankTypeNamesFromResponse(DataOf(response)), response,
                           << >>) :
             /\ subscriptions' = run.subs
             /\ broadcast' = [call |-> c, delivered |-> run.delivered]
             /\ calls' = [calls EXCEPT
                  ![c].transport = "response",
                  ![c].response = response,
                  ![c].status = IF run.threw THEN "rejected" ELSE "resolved",
                  ![c].data = IF run.threw THEN Undefined ELSE DataOf(response),
                  ![c].error = IF run.threw THEN CallbackError ELSE NoError]
     ELSE /\ subscriptions' = subscriptions
          /\ broadcast' = NoBroadcast
          /\ calls' = [calls EXCEPT ![c].transport = "response",
                                    ![c].response = response,
                                    ![c].status = "rejected",
                                    ![c].error = NoDataError]
  /\ UNCHANGED <<store, nextId, frame, registered>>

\* .then(response => ...) of executeMutation; an exception thrown by a
\* callback inside updateSubscribers is caught by the trailing .catch.
MutationThen(c, response) ==
  /\ c \in 1..Len(calls)
  /\ calls[c].kind = "mutation"
  /\ calls[c].transport = "pending"
  /\ IF Truthy(DataOf(response))
     THEN \E run \in updateSubscribers(subscriptions,
                    gankTypeNamesFromResponse(DataOf(response)), response) :
             /\ subscriptions' = run.subs
             /\ broadcast' = [call |-> c, delivered |-> run.delivered]
             /\ calls' = [calls EXCEPT
                  ![c].transport = "response",
                  ![c].response = response,
                  ![c].status = IF run.threw THEN "rejected" ELSE "resolved",
                  ![c].data = IF run.threw THEN Undefined ELSE DataOf(response),
                  ![c].error = IF run.threw THEN CallbackError ELSE NoError]
     ELSE /\ subscriptions' = subscriptions
          /\ broadcast' = NoBroadcast
          /\ calls' = [calls EXCEPT ![c].transport = "response",
                                    ![c].response = response,
                                    ![c].status = "rejected",
                                    ![c].error = NoDataError]
  /\ UNCHANGED <<store, nextId, frame, registered>>

\* .catch(e => reject(e)) of executeMutation, on a failure of the exchange.
MutationCatch(c, e) ==
  /\ c \in 1..Len(calls)
  /\ calls[c].kind = "mutation"
  /\ calls[c].transport = "pending"
  /\ calls' = [calls EXCEPT ![c].transport = "error",
                            ![c].thrown = e,
                            ![c].status = "rejected",
                            ![c].error = e]
  /\ broadcast' = NoBroadcast
  /\ UNCHANGED <<store, subscriptions, nextId, frame, registered>>

Next ==
  \/ subscribe
  \/ \E id \in 1..MaxSubs : unsubscribe(id)
  \/ \E req \in Requests, skipCache \in BOOLEAN : executeQuery(req, skipCache)
  \/ \E c \in 1..MaxCalls, response \in Responses : QueryThen(c, response)
  \/ \E c \in 1..MaxCalls, e \in TransportErrors : QueryCatch(c, e)
  \/ \E req \in Mutations : executeMutation(req)
  \/ \E c \in 1..MaxCalls, response \in Responses : MutationThen(c, response)
  \/ \E c \in 1..MaxCalls, e \in TransportErrors : MutationCatch(c, e)

Spec == Init /\ [][Next]_vars

(***************************************************************************)
(* The calls alone, for the progress of a call: one request, called as a   *)
(* query with and without skipCache and as a mutation, answered with       *)
(* data, without data or with a failure, while observers subscribe and     *)
(* their callbacks return, throw or unsubscribe.  Whether a call settles   *)
(* does not depend on which request it carries nor on which data arrives.  *)
(***************************************************************************)
LiveResponses == {NoResponse, [hasData |-> TRUE, data |-> DUser]}

\* The transport settles the exchange of call c: the promise of fetch is
\* fulfilled and the .then handlers run, or it is rejected and .catch runs.
Settle(c) ==
  \/ \E response \in LiveResponses : QueryThen(c, response)
  \/ \E e \in TransportErrors : QueryCatch(c, e)
  \/ \E response \in LiveResponses : MutationThen(c, response)
  \/ \E e \in TransportErrors : MutationCatch(c, e)

LiveNext ==
  \/ subscribe
  \/ \E req \in Mutations, skipCache \in BOOLEAN : executeQuery(req, skipCache)
  \/ \E req \in Mutations : executeMutation(req)
  \/ \E c \in 1..MaxCalls : Settle(c)

(***************************************************************************)
(* The observers of mutations: callbacks subscribe and unsubscribe while   *)
(* mutations are in flight, and each mutation notes the callbacks that     *)
(* were registered when it was called.                                     *)
(***************************************************************************)
ObserverNext ==
  \/ subscribe
  \/ \E id \in 1..MaxSubs : unsubscribe(id)
  \/ \E req \in Mutations : executeMutationObserved(req)
  \/ \E c \in 1..MaxCalls, response \in LiveResponses : MutationThen(c, response)
  \/ \E c \in 1..MaxCalls, e \in TransportErrors : MutationCatch(c, e)

ObserverSpec == Init /\ [][ObserverNext]_vars

(***************************************************************************)
(* Two instances in one process.  The variables store, subscriptions,      *)
(* calls, url, fetchOptions and construction are the fields and promises   *)
(* of the instance the caller is working with (this); peer holds those of  *)
(* the other one.  Every method runs on this.  uuid.v4() is the one        *)
(* source of ids of the process.                                           *)
(***************************************************************************)
Names == {"first", "second"}
Other(name) == IF name = "first" THEN "second" ELSE "first"

\* The instance the methods are running on.
This ==
  [name |-> Other(peer.name), url |-> url, fetchOptions |-> fetchOptions,
   construction |-> construction, store |-> store,
   subscriptions |-> subscriptions, calls |-> calls]

\* Faulty variant: store and subscriptions are objects shared by the
\* instances instead of fields made by each constructor.
SwitchSharingFields ==
  /\ peer' = This
  /\ url' = peer.url
  /\ fetchOptions' = peer.fetchOptions
  /\ construction' = peer.construction
  /\ calls' = peer.calls
  /\ broadcast' = NoBroadcast
  /\ UNCHANGED <<store, subscriptions, nextId, registered>>

\* The caller turns to the other instance: from now on this is the
\* instance that was peer, with the fields its constructor gave it.
Switch ==
  /\ peer' = This
  /\ url' = peer.url
  /\ fetchOptions' = peer.fetchOptions
  /\ construction' = peer.construction
  /\ store' = peer.store
  /\ subscriptions' = peer.subscriptions
  /\ calls' = peer.calls
  /\ broadcast' = NoBroadcast
  /\ UNCHANGED <<nextId, registered>>

\* The two instances together make fewer than MaxCalls calls.
Room == Len(calls) + Len(peer.calls) < MaxCalls

TwoNext ==
  \/ Switch
  \/ subscribe
  \/ \E id \in 1..MaxSubs : unsubscribe(id)
  \/ \E req \in Mutations, skipCache \in BOOLEAN : Room /\ executeQuery(req, skipCache)
  \/ \E req \in Mutations : Room /\ executeMutation(req)
  \/ \E c \in 1..MaxCalls : Settle(c)

TwoSpec == Init /\ [][TwoNext]_vars

(***************************************************************************)
(* Construction and the wire: new Client(opts) for every kind of opts,     *)
(* then calls whose exchanges carry the options of the caller, while what  *)
(* a fetchOptions function returns changes between the calls.              *)
(***************************************************************************)
WireInit ==
  /\ store = << >>
  /\ subscriptions = << >>
  /\ nextId = 0
  /\ calls = << >>
  /\ broadcast = NoBroadcast
  /\ url = ""
  /\ fetchOptions = StaticOptions(EmptyObject)
  /\ construction = NotConstructed
  /\ peer = FreshClient("second")
  /\ registered = << >>

\* From now on the fetchOptions function returns object.
providerReturns(object) ==
  /\ construction = Constructed
  /\ fetchOptions.tag = "function"
  /\ fetchOptions.value # object
  /\ fetchOptions' = ProviderOptions(object)
  /\ broadcast' = NoBroadcast
  /\ UNCHANGED <<store, subscriptions, nextId, calls, url, construction, peer,
                 registered>>

WireNext ==
  \/ \E opts \in ClientOptions : constructor(opts)
  \/ \E object \in {AuthorizationA, AuthorizationB} : providerReturns(object)
  \/ \E req \in Mutations, skipCache \in BOOLEAN : executeQuery(req, skipCache)
  \/ \E req \in Mutations : executeMutation(req)
  \/ \E c \in 1..MaxCalls : Settle(c)

WireSpec == WireInit /\ [][WireNext]_vars

\* Every issued network exchange eventually completes or fails.
LiveSpec == Init /\ [][LiveNext]_vars /\ \A c \in 1..MaxCalls : WF_vars(Settle(c))

(***************************************************************************)
(* Vocabulary of the properties.                                           *)
(***************************************************************************)
CallIds == 1..Len(calls)

\* The step is a call of executeQuery or executeMutation; Issued is its promise.
IssuesCall == Len(calls') = Len(calls) + 1
Issued == calls'[Len(calls')]

\* The step is the completion (response or failure) of the exchange of call c.
Completes(c) ==
  /\ c \in CallIds
  /\ Len(calls') = Len(calls)
  /\ calls[c].transport = "pending"
  /\ calls'[c].transport # "pending"

\* A data-bearing response: it has a data field, and the value of the field
\* is not one of the falsy values null, false, 0 and "".
FalsyData == {Scalar("null"), Scalar("false"), Scalar("0"), Scalar("")}
DataBearing(response) == response.hasData /\ response.data \notin FalsyData

\* The step is the completion of the exchange of query c with data.
QuerySucceeds(c) ==
  /\ Completes(c)
  /\ calls[c].kind = "query"
  /\ calls'[c].transport = "response"
  /\ DataBearing(calls'[c].response)

\* The step is the completion of the exchange of mutation c with data.
MutationSucceeds(c) ==
  /\ Completes(c)
  /\ calls[c].kind = "mutation"
  /\ calls'[c].transport = "response"
  /\ DataBearing(calls'[c].response)

\* What a query resolves with: { data, typeNames }.
ResolvedWith(call, data) ==
  /\ call.status = "resolved"
  /\ call.data = data
  /\ call.typeNames = gankTypeNamesFromResponse(data)
  /\ call.error = NoError

\* Number of invocations of callback id in a broadcast.
Invocations(delivered, id) ==
  Cardinality({i \in 1..Len(delivered) : delivered[i].id = id})

(***************************************************************************)
(* C1 - Cache hit avoids transport.  A call executeQuery(req, false) made  *)
(* while the store holds an entry for the hash of req issues no network    *)
(* exchange, leaves the store alone and resolves at once with              *)
(* { data: the stored entry, typeNames: its typenames }; this is the       *)
(* result an earlier fetching query of the same hash resolved with.        *)
(***************************************************************************)
ServedFromStore ==
  (IssuesCall /\ Issued.kind = "query" /\ ~Issued.skipCache
     /\ Issued.hash \in DOMAIN store)
  => /\ Issued.fetches = 0
     /\ Issued.transport = "none"
     /\ ResolvedWith(Issued, store[Issued.hash])
     /\ store' = store

SameAsPopulatingCall ==
  \A c \in CallIds :
    (calls[c].kind = "query" /\ calls[c].fetches = 0)
    => \E p \in 1..(c - 1) :
         /\ calls[p].kind = "query"
         /\ calls[p].hash = calls[c].hash
         /\ calls[p].fetches = 1
         /\ calls[p].transport = "response"
         /\ ResolvedWith(calls[p], calls[c].data)
         /\ calls[p].typeNames = calls[c].typeNames

C1_CacheHitAvoidsTransport == []SameAsPopulatingCall /\ [][ServedFromStore]_vars

C1_Witness ==
  /\ Len(calls) = 2
  /\ calls[1].kind = "query"
  /\ calls[1].fetches = 1
  /\ ResolvedWith(calls[1], DUser)
  /\ calls[2].kind = "query"
  /\ calls[2].hash = calls[1].hash
  /\ ~calls[2].skipCache
  /\ calls[2].fetches = 0
  /\ ResolvedWith(calls[2], DUser)
  /\ calls[2].typeNames = {"User", "Todo"}

(***************************************************************************)
(* C2 - skipCache forces refetch.  Every call executeQuery(req, true)      *)
(* issues exactly one network exchange, whether or not the store holds an  *)
(* entry for its hash, and when that exchange completes with a             *)
(* data-bearing response the entry of that hash becomes the new data.      *)
(***************************************************************************)
SkipCacheFetches ==
  (IssuesCall /\ Issued.kind = "query" /\ Issued.skipCache)
  => /\ Issued.fetches = 1
     /\ Issued.transport = "pending"
     /\ Issued.status = "pending"

SkipCacheFetchesOnce ==
  \A c \in CallIds :
    (calls[c].kind = "query" /\ calls[c].skipCache) => calls[c].fetches = 1

SkipCacheOverwrites ==
  \A c \in CallIds :
    (QuerySucceeds(c) /\ calls[c].skipCache)
    => /\ calls[c].hash \in DOMAIN store'
       /\ store'[calls[c].hash] = calls'[c].response.data

C2_SkipCacheForcesRefetch ==
  []SkipCacheFetchesOnce /\ [][SkipCacheFetches /\ SkipCacheOverwrites]_vars

\* The first query stored DUser; the skipCache query of the same hash
\* fetched and its data DEmpty replaced the entry.
C2_Witness ==
  /\ Len(calls) = 2
  /\ calls[1].kind = "query"
  /\ ResolvedWith(calls[1], DUser)
  /\ calls[2].kind = "query"
  /\ calls[2].hash = calls[1].hash
  /\ calls[2].skipCache
  /\ calls[2].fetches = 1
  /\ calls[2].response.data = DEmpty
  /\ ResolvedWith(calls[2], DEmpty)
  /\ store[calls[2].hash] = DEmpty

(***************************************************************************)
(* C3 - Subscription broadcast fan-out.                                    *)
(* As claimed (FanOutToAll): a mutation whose exchange completes with a    *)
(* data-bearing response invokes each of the N registered callbacks        *)
(* exactly once, each with (typenames of the data, the full response).     *)
(* As amended (C3_FanOut): every invocation of the broadcast carries       *)
(* (typenames of the data, the full response), no callback is invoked      *)
(* twice, only registered callbacks are invoked, and each of the N         *)
(* registered callbacks is invoked exactly once provided no callback       *)
(* throws and no callback unsubscribes another observer.                   *)
(***************************************************************************)
SamePair(c) ==
  \A i \in 1..Len(broadcast'.delivered) :
    /\ broadcast'.delivered[i].typenames =
         gankTypeNamesFromResponse(calls'[c].response.data)
    /\ broadcast'.delivered[i].changes = calls'[c].response

\* Every callback invoked returned normally and left the other observers
\* registered.
WellBehaved(delivered) ==
  \A i \in 1..Len(delivered) :
    \/ delivered[i].did.kind = "return"
    \/ delivered[i].did.kind = "unsubscribe"
         /\ delivered[i].did.target = delivered[i].id

FanOutToAll ==
  \A c \in CallIds :
    MutationSucceeds(c)
    => /\ broadcast'.call = c
       /\ \A id \in Ids(subscriptions) : Invocations(broadcast'.delivered, id) = 1
       /\ SamePair(c)

FanOutAmended ==
  \A c \in CallIds :
    MutationSucceeds(c)
    => /\ broadcast'.call = c
       /\ SamePair(c)
       /\ \A id \in 1..MaxSubs : Invocations(broadcast'.delivered, id) <= 1
       /\ \A i \in 1..Len(broadcast'.delivered) :
            broadcast'.delivered[i].id \in Ids(subscriptions)
       /\ WellBehaved(broadcast'.delivered)
          => \A id \in Ids(subscriptions) : Invocations(broadcast'.delivered, id) = 1

NoDataRejects ==
  \A c \in CallIds :
    (Completes(c) /\ calls'[c].transport = "response" /\ ~calls'[c].response.hasData)
    => /\ calls'[c].status = "rejected"
       /\ calls'[c].error = NoDataError
       /\ calls'[c].data = Undefined
       /\ store' = store
       /\ broadcast' = NoBroadcast
       /\ subscriptions' = subscriptions

C4_NoDataPath == [][NoDataRejects]_vars

\* A skipCache query of a hash that has an entry was answered with {}: it is
\* rejected and the entry is intact; observers are registered, none was invoked.
C4_Witness ==
  /\ Len(calls) = 2
  /\ calls[1].kind = "query"
  /\ ResolvedWith(calls[1], DUser)
  /\ calls[2].kind = "query"
  /\ calls[2].hash = calls[1].hash
  /\ calls[2].skipCache
  /\ calls[2].transport = "response"
  /\ ~calls[2].response.hasData
  /\ calls[2].status = "rejected"
  /\ calls[2].error = NoDataError
  /\ store[calls[2].hash] = DUser
  /\ Len(subscriptions) > 0
  /\ broadcast = NoBroadcast

(***************************************************************************)
(* C5 - Mutations are never cache-served and never cache-stored.  Every    *)
(* executeMutation issues a network exchange, also when the store holds    *)
(* an entry for the hash of its body, and no step of a mutation (the       *)
(* call, its success, its NoData rejection, its failure) changes the       *)
(* store.                                                                  *)
(***************************************************************************)
MutationFetches ==
  (IssuesCall /\ Issued.kind = "mutation")
  => /\ Issued.fetches = 1
     /\ Issued.transport = "pending"
     /\ Issued.status = "pending"
     /\ store' = store

MutationsAlwaysFetch ==
  \A c \in CallIds : calls[c].kind = "mutation" => calls[c].fetches = 1

MutationKeepsStore ==
  \A c \in CallIds : (Completes(c) /\ calls[c].kind = "mutation") => store' = store

C5_MutationsBypassStore ==
  []MutationsAlwaysFetch /\ [][MutationFetches /\ MutationKeepsStore]_vars

\* A mutation with the body of a cached query fetched and resolved with its
\* own data; the entry of the query is intact.
C5_Witness ==
  /\ Len(calls) = 2
  /\ calls[1].kind = "query"
  /\ ResolvedWith(calls[1], DUser)
  /\ calls[2].kind = "mutation"
  /\ calls[2].req = calls[1].req
  /\ calls[2].fetches = 1
  /\ calls[2].status = "resolved"
  /\ calls[2].data = DEmpty
  /\ store[calls[1].hash] = DUser

(***************************************************************************)
(* C6 - Transport failure is propagated unchanged.  When the exchange of   *)
(* a query or of a mutation fails, the call rejects with exactly the       *)
(* error of the transport, after the one exchange it issued; the store is  *)
(* unchanged and no callback is invoked.  The store changes only at the    *)
(* step where the exchange of a query completes with a data-bearing        *)
(* response.                                                               *)
(***************************************************************************)
FailurePropagated ==
  \A c \in CallIds :
    (Completes(c) /\ calls'[c].transport = "error")
    => /\ calls'[c].thrown \in TransportErrors
       /\ calls'[c].status = "rejected"
       /\ calls'[c].error = calls'[c].thrown
       /\ calls'[c].fetches = 1
       /\ broadcast' = NoBroadcast
       /\ store' = store
       /\ subscriptions' = subscriptions

StoreChangesOnlyOnQueryData == store' # store => \E c \in CallIds : QuerySucceeds(c)

\* A settled call issues no further exchange and does not settle again.
SettledStaysSettled ==
  \A c \in CallIds : calls[c].transport # "pending" => calls'[c] = calls[c]

C6_TransportFailurePropagated ==
  [][FailurePropagated /\ StoreChangesOnlyOnQueryData /\ SettledStaysSettled]_vars

C6_Witness ==
  /\ Len(calls) = 2
  /\ calls[1].kind = "query"
  /\ calls[1].transport = "error"
  /\ calls[1].status = "rejected"
  /\ calls[1].error \in TransportErrors
  /\ calls[2].kind = "mutation"
  /\ calls[2].transport = "error"
  /\ calls[2].status = "rejected"
  /\ calls[2].error \in TransportErrors
  /\ DOMAIN store = {}
  /\ Len(subscriptions) > 0
  /\ broadcast = NoBroadcast

(***************************************************************************)
(* C7 - No in-flight de-duplication, last write wins.  A query called      *)
(* while the store has no entry for its hash issues a network exchange,    *)
(* also when another query of the same hash is already in flight, and      *)
(* every query exchange that completes with data writes its data over      *)
(* the entry: after two overlapping queries the store holds the data of    *)
(* the one that completed last, whichever was called first.                *)
(***************************************************************************)
MissFetches ==
  (IssuesCall /\ Issued.kind = "query" /\ Issued.hash \notin DOMAIN store)
  => /\ Issued.fetches = 1
     /\ Issued.transport = "pending"

LastCompletionWins ==
  \A c \in CallIds :
    QuerySucceeds(c)
    => /\ DOMAIN store' = DOMAIN store \cup {calls[c].hash}
       /\ store'[calls[c].hash] = calls'[c].response.data
       /\ \A h \in DOMAIN store \ {calls[c].hash} : store'[h] = store[h]

C7_LastWriteWins == [][MissFetches /\ LastCompletionWins]_vars

\* Both queries were called without skipCache and both fetched, so the second
\* was called before the first completed; both completed with data and the
\* store holds what the first one received: the second one completed first.
C7_Witness ==
  /\ Len(calls) = 2
  /\ \A c \in 1..2 :
       /\ calls[c].kind = "query"
       /\ ~calls[c].skipCache
       /\ calls[c].fetches = 1
       /\ calls[c].status = "resolved"
  /\ calls[1].hash = calls[2].hash
  /\ calls[1].data = DUser
  /\ calls[2].data = DEmpty
  /\ store[calls[1].hash] = DUser

(***************************************************************************)
(* C8 - Request determinism.  Two requests with the same query and the     *)
(* same set of variable key/value pairs, whatever the insertion order of   *)
(* the keys, serialize to the same body and get the same hash, so once     *)
(* one of them is cached a call executeQuery(other, false) is served from  *)
(* the store without a network exchange.                                   *)
(***************************************************************************)
EqualRequestsSameKey ==
  \A c1, c2 \in CallIds :
    StructurallyEqual(calls[c1].req, calls[c2].req)
    => /\ Stringify(calls[c1].req) = Stringify(calls[c2].req)
       /\ calls[c1].hash = calls[c2].hash

EqualRequestServedFromStore ==
  (/\ IssuesCall
   /\ Issued.kind = "query"
   /\ ~Issued.skipCache
   /\ \E p \in CallIds :
        /\ calls[p].kind = "query"
        /\ calls[p].transport = "response"
        /\ calls[p].status = "resolved"
        /\ StructurallyEqual(calls[p].req, Issued.req))
  => Issued.fetches = 0

C8_RequestDeterminism == []EqualRequestsSameKey /\ [][EqualRequestServedFromStore]_vars

(***************************************************************************)
(* C9 - Success with a data field present.                                 *)
(* As claimed (DataFieldPresentSucceeds): a query whose exchange completes *)
(* with a response that carries a data field, whatever its value, stores   *)
(* the data under its hash and resolves with { data, typeNames }; only a   *)
(* response without data field is rejected with 'No data'.                 *)
(* As amended (C9_TruthyDataSucceeds): the query stores the data and       *)
(* resolves with { data, typeNames } when the data field holds a truthy    *)
(* value (any object or array, the empty ones included); when the data     *)
(* field is absent or holds a falsy value (null, false, 0, "") the query   *)
(* is rejected with 'No data' and the store is unchanged.                  *)
(***************************************************************************)
DataFieldPresentSucceeds ==
  \A c \in CallIds :
    (calls[c].kind = "query" /\ calls[c].transport = "response")
    => /\ calls[c].response.hasData
          => /\ ResolvedWith(calls[c], calls[c].response.data)
             /\ calls[c].hash \in DOMAIN store
       /\ calls[c].error = NoDataError => ~calls[c].response.hasData

TruthyDataSucceeds ==
  \A c \in CallIds :
    (Completes(c) /\ calls[c].kind = "query" /\ calls'[c].transport = "response")
    => LET response == calls'[c].response
       IN IF DataBearing(response)
          THEN /\ ResolvedWith(calls'[c], response.data)
               /\ calls[c].hash \in DOMAIN store'
               /\ store'[calls[c].hash] = response.data
          ELSE /\ calls'[c].status = "rejected"
               /\ calls'[c].error = NoDataError
               /\ store' = store

C9_Original == DataFieldPresentSucceeds

C9_TruthyDataSucceeds == [][TruthyDataSucceeds]_vars

C9_Witness ==
  /\ Len(calls) = 2
  /\ \A c \in 1..2 :
       /\ calls[c].kind = "query"
       /\ calls[c].transport = "response"
       /\ calls[c].response.hasData
  /\ calls[1].response.data = DEmpty
  /\ ResolvedWith(calls[1], DEmpty)
  /\ calls[2].hash # calls[1].hash
  /\ calls[2].response.data = DNull
  /\ calls[2].status = "rejected"
  /\ calls[2].error = NoDataError
  /\ DOMAIN store = {calls[1].hash}
  /\ store[calls[1].hash] = DEmpty

(***************************************************************************)
(* C10 - Unsubscribing during a broadcast is tolerated.  When callbacks    *)
(* invoked by a broadcast call unsubscribe, for their own id or for the    *)
(* id of another observer, the loop does not fail: the broadcast ends      *)
(* with an exception only if an invoked callback itself throws.            *)
(* Otherwise the mutation resolves with the data, exactly the ids the      *)
(* invoked callbacks unsubscribed are removed, and every observer that is  *)
(* still registered has been invoked exactly once.                         *)
(***************************************************************************)
UnsubscribeTolerated ==
  \A c \in CallIds :
    MutationSucceeds(c)
    => LET delivered == broadcast'.delivered
           invoked == {delivered[i].did : i \in 1..Len(delivered)}
           threw == \E cb \in invoked : cb.kind = "throw"
           removed == {cb.target : cb \in {x \in invoked : x.kind = "unsubscribe"}}
       IN /\ calls'[c].status = "rejected" <=> threw
          /\ Ids(subscriptions') = Ids(subscriptions) \ removed
          /\ ~threw
             => /\ calls'[c].status = "resolved"
                /\ calls'[c].data = calls'[c].response.data
                /\ \A id \in Ids(subscriptions') : Invocations(delivered, id) = 1

C10_UnsubscribeDuringBroadcast == [][UnsubscribeTolerated]_vars

\* The first callback unsubscribed itself during the broadcast; the second
\* one, still registered, was invoked once and the mutation resolved.
C10_Witness ==
  /\ broadcast.call \in CallIds
  /\ calls[broadcast.call].status = "resolved"
  /\ Len(broadcast.delivered) = 2
  /\ broadcast.delivered[1].id = 1
  /\ broadcast.delivered[1].did = [kind |-> "unsubscribe", target |-> 1]
  /\ broadcast.delivered[2].id = 2
  /\ subscriptions = <<2>>

(***************************************************************************)
(* C11 - Mutation success ordering and result.  Every executeMutation      *)
(* whose exchange completes with a data-bearing response broadcasts        *)
(* (extract(data), the full response) to the registered observers and      *)
(* then resolves with data: the call resolves with data for every such     *)
(* response, whatever the observers do.                                    *)
(***************************************************************************)
BroadcastThenResolve ==
  \A c \in CallIds :
    MutationSucceeds(c)
    => LET response == calls'[c].response
           delivered == broadcast'.delivered
       IN /\ broadcast'.call = c
          /\ subscriptions # <<>> => delivered # <<>>
          /\ \A i \in 1..Len(delivered) :
               /\ delivered[i].typenames = gankTypeNamesFromResponse(response.data)
               /\ delivered[i].changes = response
          /\ calls'[c].status = "resolved"
          /\ calls'[c].data = response.data
          /\ calls'[c].error = NoError

C11_MutationResolvesWithData == [][BroadcastThenResolve]_vars

(***************************************************************************)
(* C12 - Unsubscribe idempotence.  unsubscribe completes for every id in   *)
(* every state (it never throws).  Called with an id that is not           *)
(* registered (never issued, or already removed) it leaves the             *)
(* subscription registry and the store unchanged; called with a            *)
(* registered id it removes exactly that entry, keeps every other entry    *)
(* and their order, and leaves the store unchanged.                        *)
(***************************************************************************)
UnsubscribeNeverThrows == \A id \in 1..MaxSubs : ENABLED unsubscribe(id)

\* subs without id, by position: the entries before id, then those after it.
Without(subs, id) ==
  IF \E i \in 1..Len(subs) : subs[i] = id
  THEN LET i == CHOOSE k \in 1..Len(subs) : subs[k] = id
       IN SubSeq(subs, 1, i - 1) \o SubSeq(subs, i + 1, Len(subs))
  ELSE subs

UnsubscribeEffect ==
  \A id \in 1..MaxSubs :
    unsubscribe(id)
    => /\ store' = store
       /\ calls' = calls
       /\ id \notin Ids(subscriptions) => subscriptions' = subscriptions
       /\ id \in Ids(subscriptions)
          => /\ Ids(subscriptions') = Ids(subscriptions) \ {id}
             /\ Len(subscriptions') = Len(subscriptions) - 1
       /\ subscriptions' = Without(subscriptions, id)

C12_UnsubscribeIdempotence ==
  []UnsubscribeNeverThrows /\ [][UnsubscribeEffect]_vars

\* Ids 1, 2 were issued and id 1 was unsubscribed: exactly that entry is
\* gone, the store still has its entry, and id 1 is now an id already removed.
C12_Witness ==
  /\ nextId = 2
  /\ subscriptions = <<2>>
  /\ DOMAIN store # {}
  /\ broadcast = NoBroadcast
  /\ calls # <<>>
  /\ calls[1].status = "resolved"

(***************************************************************************)
(* C16 - An existing cache entry is replaced only by a forced refetch.     *)
(* As claimed (C16_Original): once the store holds an entry for a hash,    *)
(* its value changes only at the completion, with a data-bearing           *)
(* response, of an executeQuery called with skipCache=true for that hash.  *)
(* As amended (C16_EntryReplacedByQueryCompletion): its value changes      *)
(* only at the completion, with a data-bearing response, of the exchange   *)
(* of an executeQuery for that hash, which becomes the new value: a query  *)
(* called with skipCache=true, or a query called without it while the      *)
(* store had no entry for the hash and completing after another query of   *)
(* the same hash.                                                          *)
(***************************************************************************)
ReplacedOnlyByForcedRefetch ==
  \A h \in DOMAIN store :
    (h \in DOMAIN store' /\ store'[h] # store[h])
    => \E c \in CallIds :
         /\ QuerySucceeds(c)
         /\ calls[c].hash = h
         /\ calls[c].skipCache

ReplacedOnlyByQueryCompletion ==
  \A h \in DOMAIN store :
    (h \notin DOMAIN store' \/ store'[h] # store[h])
    => \E c \in CallIds :
         /\ QuerySucceeds(c)
         /\ calls[c].hash = h
         /\ calls[c].fetches = 1
         /\ h \in DOMAIN store'
         /\ store'[h] = calls'[c].response.data

C16_Original == [][ReplacedOnlyByForcedRefetch]_vars

C16_EntryReplacedByQueryCompletion == [][ReplacedOnlyByQueryCompletion]_vars

\* Two overlapping queries without skipCache: the second completed first and
\* created the entry, the first completed later and replaced it.
C16_Witness ==
  /\ Len(calls) = 2
  /\ \A c \in 1..2 :
       /\ calls[c].kind = "query"
       /\ ~calls[c].skipCache
       /\ calls[c].fetches = 1
       /\ calls[c].status = "resolved"
  /\ calls[1].hash = calls[2].hash
  /\ calls[1].data = DEmpty
  /\ calls[2].data = DUser
  /\ store[calls[1].hash] = DEmpty

(***************************************************************************)
(* C17 - Cache entries are never removed.  Over every step, whatever the   *)
(* operation, every hash that has an entry in the store still has one:     *)
(* the set of cached hashes only grows.                                    *)
(***************************************************************************)
EntriesKept == DOMAIN store \subseteq DOMAIN store'

C17_EntriesNeverRemoved == [][EntriesKept]_vars

\* Two entries; the second was added while the first was there, and a failed
\* call and a subscription did not remove any.
C17_Witness ==
  /\ Len(calls) = 2
  /\ calls[1].kind = "query"
  /\ calls[2].kind = "query"
  /\ calls[1].hash # calls[2].hash
  /\ DOMAIN store = {calls[1].hash, calls[2].hash}
  /\ nextId > 0

(***************************************************************************)
(* C19 - Every call settles exactly once.  If every issued network         *)
(* exchange eventually completes or fails (LiveSpec), every executeQuery   *)
(* and every executeMutation call eventually resolves or rejects, also     *)
(* with several calls in flight.  A call is never both resolved and        *)
(* rejected, and a settled call never settles again: its status and what   *)
(* it resolved or rejected with never change.                              *)
(***************************************************************************)
Settled(c) == c \in CallIds /\ calls[c].status \in {"resolved", "rejected"}

EventuallySettles == \A c \in 1..MaxCalls : (c \in CallIds) ~> Settled(c)

NeverBoth ==
  \A c \in CallIds :
    /\ calls[c].status = "resolved" => calls[c].error = NoError
    /\ calls[c].status = "rejected"
       => /\ calls[c].error # NoError
          /\ calls[c].data = Undefined
          /\ calls[c].typeNames = {}
    /\ calls[c].status = "pending"
       => /\ calls[c].error = NoError
          /\ calls[c].data = Undefined

SettlesOnce ==
  \A c \in CallIds :
    Settled(c)
    => /\ calls'[c].status = calls[c].status
       /\ calls'[c].data = calls[c].data
       /\ calls'[c].typeNames = calls[c].typeNames
       /\ calls'[c].error = calls[c].error

C19_SettlesExactlyOnce == EventuallySettles /\ []NeverBoth /\ [][SettlesOnce]_vars

\* Two overlapping queries of one request (the second fetched although the
\* first was to create the entry): one resolved, the other rejected.
C19_Witness ==
  /\ Len(calls) = 2
  /\ \A c \in 1..2 :
       /\ calls[c].kind = "query"
       /\ ~calls[c].skipCache
       /\ calls[c].fetches = 1
  /\ calls[1].hash = calls[2].hash
  /\ ResolvedWith(calls[1], DUser)
  /\ calls[2].status = "rejected"
  /\ calls[2].error \in TransportErrors

(***************************************************************************)
(* C13 - Wire format.  Every network exchange issued by executeQuery or    *)
(* executeMutation, for every value of the fetchOptions of the caller, is  *)
(* a POST to the configured url whose body is the JSON serialization of    *)
(* { query, variables } and which carries the header                       *)
(* Content-Type: application/json, with the options of the caller merged   *)
(* in: every key of the options is in the request, and every header of     *)
(* the options is among its headers.                                       *)
(***************************************************************************)
OptionsMergedIn(options, init) ==
  \A k \in DOMAIN options :
    /\ k \in DOMAIN init
    /\ IF k = "headers"
       THEN \A h \in DOMAIN options.headers :
              /\ h \in DOMAIN init.headers
              /\ init.headers[h] = options.headers[h]
       ELSE init[k] = options[k]

WireFormat ==
  \A c \in CallIds :
    calls[c].fetches > 0
    => /\ calls[c].sentTo = url
       /\ calls[c].init.method = "POST"
       /\ calls[c].init.body = Stringify(calls[c].req)
       /\ "Content-Type" \in DOMAIN calls[c].init.headers
       /\ calls[c].init.headers["Content-Type"] = "application/json"
       /\ OptionsMergedIn(calls[c].options, calls[c].init)

C13_WireFormat == WireFormat

(***************************************************************************)
(* C14 - Dynamic fetch options are evaluated fresh.  When fetchOptions is  *)
(* a function, every call that issues a network exchange invokes it        *)
(* exactly once and the exchange carries what it returns at that moment,   *)
(* whatever it returned for earlier exchanges; when fetchOptions is an     *)
(* object, no function is invoked and every exchange carries that object.  *)
(* A call served from the store invokes nothing, and the options of an     *)
(* exchange never change after it was issued.                              *)
(***************************************************************************)
OptionsFresh ==
  IssuesCall
  => IF Issued.fetches = 0
     THEN Issued.provided = 0
     ELSE /\ Issued.fetches = 1
          /\ Issued.provided = (IF fetchOptions.tag = "function" THEN 1 ELSE 0)
          /\ Issued.options = fetchOptions.value
          /\ \A k \in DOMAIN fetchOptions.value : Issued.init[k] = fetchOptions.value[k]

OptionsKept ==
  \A c \in CallIds :
    Len(calls') >= c
    => /\ calls'[c].provided = calls[c].provided
       /\ calls'[c].options = calls[c].options
       /\ calls'[c].init = calls[c].init

C14_FetchOptionsFresh == [][OptionsFresh /\ OptionsKept]_vars

\* Two exchanges under one fetchOptions function that returned another
\* object for the second: each carries what the function returned for it.
C14_Witness ==
  /\ Len(calls) = 2
  /\ fetchOptions.tag = "function"
  /\ calls[1].provided = 1
  /\ calls[2].provided = 1
  /\ calls[1].options = AuthorizationA
  /\ calls[2].options = AuthorizationB
  /\ calls[1].init.headers = [Authorization |-> "Bearer A"]
  /\ calls[2].init.headers = [Authorization |-> "Bearer B"]

(***************************************************************************)
(* C15 - Construction requires a URL.  new Client() without options        *)
(* object, or with options whose url is missing or empty, throws an Error  *)
(* at once and leaves no usable instance: nothing is ever stored,          *)
(* subscribed or called on it.  new Client(opts) with a non-empty url      *)
(* returns an instance with that url, an empty store and an empty          *)
(* subscription registry.                                                  *)
(***************************************************************************)
ConstructorEffect ==
  \A opts \in ClientOptions :
    constructor(opts)
    => IF ~opts.given \/ ~opts.hasUrl \/ opts.url = ""
       THEN /\ construction' \in ConfigurationErrors
            /\ url' = ""
       ELSE /\ construction' = Constructed
            /\ url' = opts.url
            /\ store' = << >>
            /\ subscriptions' = << >>
            /\ calls' = << >>

NoInstanceNoGateway ==
  construction # Constructed
  => /\ url = ""
     /\ store = << >>
     /\ subscriptions = << >>
     /\ calls = << >>

FailureIsFinal ==
  construction \in ConfigurationErrors
  => /\ construction' = construction
     /\ calls' = calls
     /\ store' = store
     /\ subscriptions' = subscriptions

C15_ConstructionRequiresUrl ==
  []NoInstanceNoGateway /\ [][ConstructorEffect /\ FailureIsFinal]_vars

C15_Witness ==
  /\ construction = "Please provide a URL for your GraphQL API"
  /\ url = ""
  /\ store = << >>
  /\ subscriptions = << >>
  /\ calls = << >>

(***************************************************************************)
(* C18 - A broadcast goes to the observers registered when the response    *)
(* of the mutation is processed, not when the mutation was called.         *)
(* As claimed (C18_Original): a callback whose id was unsubscribed while   *)
(* the mutation was in flight is not invoked by that mutation nor by a     *)
(* later one, and a callback subscribed while the mutation was in flight   *)
(* is invoked when the mutation completes with data.                       *)
(* As amended (C18_BroadcastAtResponseTime): the same, except that a       *)
(* callback subscribed while the mutation was in flight is not invoked     *)
(* when an earlier callback of that broadcast throws or unsubscribes it.   *)
(***************************************************************************)
Invoked(delivered) == {delivered[i].id : i \in 1..Len(delivered)}

\* Callbacks unsubscribed while the mutation was in flight are not invoked,
\* and only callbacks registered now are.
UnsubscribedNotInvoked(c) ==
  /\ \A id \in registered[c] \ Ids(subscriptions) : id \notin Invoked(broadcast'.delivered)
  /\ Invoked(broadcast'.delivered) \subseteq Ids(subscriptions)

\* An id that was unsubscribed never has a callback again.
UnsubscribedForGood ==
  \A id \in 1..nextId : id \notin Ids(subscriptions) => id \notin Ids(subscriptions')

SubscribedInFlightInvoked ==
  \A c \in CallIds :
    MutationSucceeds(c)
    => /\ UnsubscribedNotInvoked(c)
       /\ \A id \in Ids(subscriptions) \ registered[c] :
            id \in Invoked(broadcast'.delivered)

SubscribedInFlightInvokedUnlessCut ==
  \A c \in CallIds :
    MutationSucceeds(c)
    => LET delivered == broadcast'.delivered
       IN /\ UnsubscribedNotInvoked(c)
          /\ \A id \in Ids(subscriptions) \ registered[c] :
               \/ id \in Invoked(delivered)
               \/ \E i \in 1..Len(delivered) :
                    /\ delivered[i].id < id
                    /\ \/ delivered[i].did.kind = "throw"
                       \/ delivered[i].did = [kind |-> "unsubscribe", target |-> id]

Instance(name) == IF peer.name = name THEN peer ELSE This

\* The step is an operation on this (the caller did not turn to the peer).
OnThis == peer'.name = peer.name

OtherUntouched ==
  \A name \in Names :
    (OnThis /\ peer.name = name) \/ ~OnThis => Instance(name)' = Instance(name)

MissInOneOnly ==
  (/\ OnThis
   /\ IssuesCall
   /\ Issued.kind = "query"
   /\ Issued.hash \notin DOMAIN store)
  => /\ Issued.fetches = 1
     /\ Issued.status = "pending"

NoCrossBroadcast ==
  \A c \in CallIds :
    (OnThis /\ MutationSucceeds(c))
    => /\ Invoked(broadcast'.delivered) \cap Ids(peer.subscriptions) = {}
       /\ Invoked(broadcast'.delivered) \subseteq Ids(subscriptions)

NoSharedId == Ids(subscriptions) \cap Ids(peer.subscriptions) = {}

C20_InstancesIndependent ==
  []NoSharedId /\ [][OtherUntouched /\ MissInOneOnly /\ NoCrossBroadcast]_vars

\* The other instance has the entry and a callback; the same query on this
\* instance missed and fetched, and this instance has no callback.
C20_Witness ==
  /\ Len(peer.calls) = 1
  /\ peer.calls[1].kind = "query"
  /\ peer.calls[1].status = "resolved"
  /\ peer.calls[1].hash \in DOMAIN peer.store
  /\ peer.subscriptions # << >>
  /\ Len(calls) = 1
  /\ calls[1].kind = "query"
  /\ ~calls[1].skipCache
  /\ calls[1].hash = peer.calls[1].hash
  /\ calls[1].fetches = 1
  /\ subscriptions = << >>
  /\ store = << >>

====
